---- MODULE Spec2Model ----
(***************************************************************************)
(* k8s-deployment-scaler: an HTTP API that reads deployment replica counts *)
(* from a shared-informer cache (the Mirror) and writes them through the   *)
(* scale subresource of the Kubernetes API (the Remote Object Store).      *)
(*                                                                         *)
(* Handlers: internal/handlers/handlers.go (src/unnamed/part_006) and the  *)
(* identical copies in cmd/k8s-deployment-scaler/main.go.  Each handler    *)
(* touches shared state at most once (one lister read or one UpdateScale   *)
(* call), so a handler is one atomic action.                               *)
(***************************************************************************)
EXTENDS Integers, Sequences, FiniteSets, TLC

\* ------------------------------------------------------------- bounds
MaxReplicas == 1
MaxRV == 2
MaxWatchErrors == 1
MaxFeed == 3

\* ---------------------------------------------------------- constants
StatusOK == 200
StatusBadRequest == 400
StatusNotFound == 404
StatusInternalServerError == 500
StatusServiceUnavailable == 503
\* The seconds PostReplicaCount gives UpdateScale, and main gives
\* server.Shutdown.
UpdateTimeout == 10
ShutdownTimeout == 5
\* A handler that panicked wrote no status line.
NoStatus == 0
\* Deployment.Spec.Replicas is a *int32: the nil pointer.
NoReplicas == -1
\* The response carries no "replicaCount" field.
NoValue == -2

\* ------------------------------------------------------------ domains
Namespaces == {"default", "test"}
Names == {"web"}
\* The objects the store may hold: one name in two namespaces.
Keys == {<<"default", "web">>, <<"test", "web">>}
\* Query parameters: r.URL.Query().Get yields "" for a missing parameter.
ReqNamespaces == Namespaces \cup {""}
ReqNames == Names \cup {""}
Replicas == 0..MaxReplicas

\* A request body: not JSON, a JSON object without "replicas", or
\* {"replicas": n}.  A count beyond the int32 range is kept by its sign
\* only (n is -1 or 1): below -2^31, or above 2^31 - 1.
BodyMalformed == [kind |-> "malformed", n |-> 0]
BodyEmpty == [kind |-> "empty", n |-> 0]
BodyOf(n) == [kind |-> "number", n |-> n]
BodyBelowInt32 == [kind |-> "outOfRange", n |-> -1]
BodyAboveInt32 == [kind |-> "outOfRange", n |-> 1]
ReqCounts == Replicas \cup {-1}
Bodies == {BodyMalformed, BodyEmpty, BodyBelowInt32, BodyAboveInt32}
              \cup {BodyOf(n) : n \in ReqCounts}
\* The body asks for this count (of any size).
Asks(body) == body.kind \in {"number", "outOfRange"}

\* What the store may answer to one UpdateScale call besides doing it.
Faults == {"none", "conflict", "forbidden", "unavailable", "timeout",
           "timeoutApplied"}

VARIABLES
    phase,        \* "init" until the server listens: "serving"; or "fatal"
    canList,      \* the store answers the informer's list calls
    synced,       \* the informer's HasSynced
    backoff,      \* the reflector waits to list again after a failure
    store,        \* Remote Object Store: present key -> object
    rv,           \* the store's resource version counter
    limit,        \* the run ends its store writes at this resource version
    feed,         \* the events the watch was given to deliver, if any
    keep,         \* when positive, the run keeps and ends its post calls
                  \* at this number
    posts,        \* the post calls kept, oldest first
    mirror,       \* the informer's indexer: present key -> object
    watch,        \* deltas queued for the indexer, oldest first
    watchUp,      \* the reflector's watch is connected
    watchErrors,  \* watch failures so far
    applied,      \* per key, the last delta applied to the indexer
    muts,         \* per key, the accepted UpdateScale whose event is queued
    stopChClosed, \* main's stopCh has been closed
    pending,      \* the post call waiting for the store's answer, if any
    grace,        \* seconds since server.Shutdown was called, if it was
    last          \* the handler call that has just returned

vars == <<phase, canList, synced, backoff, store, rv, limit, feed, keep, posts,
          mirror, watch,
          watchUp, watchErrors, applied, muts, stopChClosed, pending, grace,
          last>>

\* ------------------------------------------------------------ helpers
Put(f, k, v) == [x \in DOMAIN f \cup {k} |-> IF x = k THEN v ELSE f[x]]
Remove(f, k) == [x \in DOMAIN f \ {k} |-> f[x]]
Empty == [x \in {} |-> 0]

\* A deployment: its key, spec.replicas, metadata.resourceVersion, and
\* the rest of the object, named by the resource version that wrote it.
Deployment(k, r, ver) ==
    [ns |-> k[1], name |-> k[2], replicas |-> r, rv |-> ver, payload |-> ver]
KeyOf(obj) == <<obj.ns, obj.name>>

Delta(t, obj) == [type |-> t, key |-> KeyOf(obj), obj |-> obj]
NoDelta == [type |-> "None"]
NoMut == [n |-> NoValue, m |-> NoValue, rv |-> 0, clean |-> TRUE]

\* No post call waits for the store; server.Shutdown has not been called.
NoPending == [waited |-> -1]
NoGrace == -1

NoCall == [op |-> "none"]
\* No handler call is waiting to be observed.
Idle == last = NoCall

\* ---------------------------------------------------- store (external)
\* A watch delivers a store change only while it is connected.
Emit(ev) == IF synced /\ watchUp THEN Append(watch, ev) ELSE watch

\* Another client creates a deployment (spec.replicas is optional).
ExtCreate(k, r) ==
    /\ Idle
    /\ rv < limit
    /\ k \notin DOMAIN store
    /\ LET obj == Deployment(k, r, rv + 1) IN
        /\ store' = Put(store, k, obj)
        /\ watch' = Emit(Delta("Added", obj))
    /\ rv' = rv + 1
    /\ last' = NoCall
    /\ UNCHANGED <<stopChClosed, pending, grace,
                   limit, keep, posts, feed, canList, synced, backoff,
                   phase, mirror, watchUp, watchErrors, applied, muts>>

\* Another client (kubectl scale, an autoscaler) changes the count.
ExtScale(k, n) ==
    /\ Idle
    /\ rv < limit
    /\ k \in DOMAIN store
    /\ store[k].replicas # n
    /\ LET obj == [store[k] EXCEPT !.replicas = n, !.rv = rv + 1] IN
        /\ store' = Put(store, k, obj)
        /\ watch' = Emit(Delta("Modified", obj))
    /\ rv' = rv + 1
    /\ last' = NoCall
    /\ UNCHANGED <<stopChClosed, pending, grace,
                   limit, keep, posts, feed, canList, synced, backoff,
                   phase, mirror, watchUp, watchErrors, applied, muts>>

\* Another client changes the deployment outside spec.replicas (its
\* image, labels, strategy).
ExtPatch(k) ==
    /\ Idle
    /\ rv < limit
    /\ k \in DOMAIN store
    /\ LET obj == [store[k] EXCEPT !.payload = rv + 1, !.rv = rv + 1] IN
        /\ store' = Put(store, k, obj)
        /\ watch' = Emit(Delta("Modified", obj))
    /\ rv' = rv + 1
    /\ last' = NoCall
    /\ UNCHANGED <<stopChClosed, pending, grace,
                   limit, keep, posts, feed, canList, synced, backoff,
                   phase, mirror, watchUp, watchErrors, applied, muts>>

\* Another client deletes the deployment.
ExtDelete(k) ==
    /\ Idle
    /\ rv < limit
    /\ k \in DOMAIN store
    /\ store' = Remove(store, k)
    /\ watch' = Emit(Delta("Deleted", [store[k] EXCEPT !.rv = rv + 1]))
    /\ rv' = rv + 1
    /\ last' = NoCall
    /\ UNCHANGED <<stopChClosed, pending, grace,
                   limit, keep, posts, feed, canList, synced, backoff,
                   phase, mirror, watchUp, watchErrors, applied, muts>>

\* Variant of UpdateScale: the whole object is replaced by the cached
\* copy with the new count, as Deployments(namespace).Update did with
\* info.Deployment in the handler that updated through the cache.
UpdateScaleWholeObject(st, ver, ns, name, n, fault) ==
    LET k == <<ns, name>>
        same == [err |-> fault, store |-> st, rv |-> ver, events |-> <<>>]
        from == IF k \in DOMAIN mirror THEN mirror[k] ELSE st[k]
    IN  IF fault \in {"forbidden", "unavailable"} THEN same
        ELSE IF k \notin DOMAIN st
        THEN [same EXCEPT !.err = IF fault \in {"timeout", "timeoutApplied"}
                                  THEN "timeout" ELSE "notfound"]
        ELSE IF fault \in {"conflict", "timeout"} THEN same
        ELSE LET err == IF fault = "timeoutApplied" THEN "timeout" ELSE "none"
                 obj == [from EXCEPT !.replicas = n, !.rv = ver + 1]
             IN  [err |-> err, store |-> Put(st, k, obj), rv |-> ver + 1,
                  events |-> <<Delta("Modified", obj)>>]

\* The scale subresource's update: authorization and availability come
\* before the lookup; a write that changes nothing stores nothing.
UpdateScale(st, ver, ns, name, n, fault) ==
    LET k == <<ns, name>>
        same == [err |-> fault, store |-> st, rv |-> ver, events |-> <<>>]
    IN  IF fault \in {"forbidden", "unavailable"} THEN same
        ELSE IF k \notin DOMAIN st
        THEN [same EXCEPT !.err = IF fault \in {"timeout", "timeoutApplied"}
                                  THEN "timeout" ELSE "notfound"]
        ELSE IF fault \in {"conflict", "timeout"} THEN same
        ELSE LET err == IF fault = "timeoutApplied" THEN "timeout" ELSE "none"
                 obj == [st[k] EXCEPT !.replicas = n, !.rv = ver + 1]
             IN  IF st[k].replicas = n
                 THEN [same EXCEPT !.err = err]
                 ELSE [err |-> err, store |-> Put(st, k, obj), rv |-> ver + 1,
                       events |-> <<Delta("Modified", obj)>>]

\* errors.IsNotFound
IsNotFound(err) == err = "notfound"


\* -------------------------------------------------- watch synchronizer
\* The shared informer: a reflector lists and watches the store and queues
\* deltas; the controller pops them, oldest first, into the indexer.
KeySeq == <<<<"default", "web">>, <<"test", "web">>>>

Known(k) == k \in DOMAIN mirror \/ \E i \in 1..Len(watch) : watch[i].key = k

\* Variant of ReplaceDeltas: the reflector reopens the watch without
\* listing the store.
ReplaceDeltasNoList(st) == <<>>

\* DeltaFIFO.Replace after a list: one delta per listed object, and a
\* Deleted delta for every known object the list no longer holds.
ReplaceDeltas(st) ==
    LET d(k) == IF k \in DOMAIN st THEN Delta("Sync", st[k])
                ELSE IF Known(k)
                THEN Delta("Deleted", Deployment(k, NoReplicas, 0))
                ELSE NoDelta
        all == [i \in 1..Len(KeySeq) |-> d(KeySeq[i])]
    IN  SelectSeq(all, LAMBDA e : e.type # "None")

\* Variant of ApplyDelta: an event older than the stored entry is dropped.
ApplyDeltaDropStale(ix, ev) ==
    IF ev.type = "Deleted" THEN Remove(ix, ev.key)
    ELSE IF ev.key \in DOMAIN ix /\ ev.obj.rv < ix[ev.key].rv THEN ix
    ELSE Put(ix, ev.key, ev.obj)

\* Variant of ApplyDelta: an entry already present is kept.
ApplyDeltaKeepFirst(ix, ev) ==
    IF ev.type = "Deleted" THEN Remove(ix, ev.key)
    ELSE IF ev.key \in DOMAIN ix THEN ix
    ELSE Put(ix, ev.key, ev.obj)

\* Variant of ApplyDelta: an Added event for a key already present is
\* taken as an inconsistency and the entry is evicted.
ApplyDeltaEvictOnAdd(ix, ev) ==
    IF ev.type = "Deleted" THEN Remove(ix, ev.key)
    ELSE IF ev.type = "Added" /\ ev.key \in DOMAIN ix THEN Remove(ix, ev.key)
    ELSE Put(ix, ev.key, ev.obj)

\* Variant of ApplyDelta: the deltas of a list (Sync) are not handled.
ApplyDeltaNoSync(ix, ev) ==
    IF ev.type = "Deleted" THEN Remove(ix, ev.key)
    ELSE IF ev.type = "Sync" THEN ix
    ELSE Put(ix, ev.key, ev.obj)

\* The indexer after one delta: Add/Update replace the entry, Delete
\* removes it.
ApplyDelta(ix, ev) ==
    IF ev.type = "Deleted" THEN Remove(ix, ev.key) ELSE Put(ix, ev.key, ev.obj)

\* The indexer after a sequence of deltas, oldest first.
RECURSIVE ApplyAll(_, _)
ApplyAll(ix, evs) ==
    IF evs = <<>> THEN ix ELSE ApplyAll(ApplyDelta(ix, Head(evs)), Tail(evs))

\* The last delta of the sequence for the key, if any.
LastFor(k, evs, none) ==
    LET is == {i \in 1..Len(evs) : evs[i].key = k} IN
    IF is = {} THEN none
    ELSE evs[CHOOSE i \in is : \A j \in is : j <= i]

\* factory.Start(stopCh): the informer's goroutines run until stopCh is
\* closed or the process ends.
InformerRuns == ~stopChClosed /\ phase \notin {"fatal", "exited"}

\* factory.Start: the reflector's first list succeeds, its objects go
\* through the queue into the indexer, HasSynced turns true and the watch
\* opens.
InitialList ==
    /\ Idle
    /\ InformerRuns
    /\ ~synced
    /\ canList
    /\ LET evs == ReplaceDeltas(store) IN
        /\ mirror' = ApplyAll(mirror, evs)
        /\ applied' = [k \in Keys |-> LastFor(k, evs, applied[k])]
    /\ watch' = <<>>
    /\ watchUp' = TRUE
    /\ synced' = TRUE
    /\ last' = NoCall
    /\ UNCHANGED <<stopChClosed, pending, grace,
                   limit, keep, posts, feed, canList, backoff, phase,
                   store, rv, watchErrors,
                   muts>>

\* The reflector's list fails and the reflector backs off.
ListFails ==
    /\ Idle
    /\ InformerRuns
    /\ ~synced
    /\ ~canList
    /\ ~backoff
    /\ backoff' = TRUE
    /\ last' = NoCall
    /\ UNCHANGED <<stopChClosed, pending, grace,
                   limit, keep, posts, feed, canList, synced, phase, store,
                   rv, mirror, watch, watchUp, watchErrors, applied, muts>>

\* The backoff is over and the reflector lists again, without end.
ListRetry ==
    /\ Idle
    /\ InformerRuns
    /\ backoff
    /\ backoff' = FALSE
    /\ last' = NoCall
    /\ UNCHANGED <<stopChClosed, pending, grace,
                   limit, keep, posts, feed, canList, synced, phase, store,
                   rv, mirror, watch, watchUp, watchErrors, applied, muts>>

\* Variant of WaitForCacheSync: the wait is skipped.
WaitForCacheSyncNoWait(stopped, hasSynced) == "true"

\* cache.WaitForCacheSync(stopCh, deploymentsSynced): polls until the
\* informer has synced (true) or stopCh is closed (false).
WaitForCacheSync(stopped, hasSynced) ==
    IF stopped THEN "false" ELSE IF hasSynced THEN "true" ELSE "waiting"

\* main after the wait has returned true: setupTLSConfig succeeds and the
\* server listens.
Start ==
    /\ Idle
    /\ phase = "init"
    /\ WaitForCacheSync(stopChClosed, synced) = "true"
    /\ phase' = "serving"
    /\ last' = NoCall
    /\ UNCHANGED <<stopChClosed, pending, grace,
                   limit, keep, posts, feed, canList, synced, backoff,
                   store, rv, mirror, watch,
                   watchUp, watchErrors, applied, muts>>

\* main ends in log.Fatal: the wait returned false, or setupTLSConfig
\* failed after it returned true.  The informer ends with the process.
StartFails ==
    /\ Idle
    /\ phase = "init"
    /\ WaitForCacheSync(stopChClosed, synced) \in {"true", "false"}
    /\ phase' = "fatal"
    /\ watch' = <<>>
    /\ watchUp' = FALSE
    /\ last' = NoCall
    /\ UNCHANGED <<stopChClosed, pending, grace,
                   limit, keep, posts, feed, canList, synced, backoff,
                   store, rv, mirror,
                   watchErrors, applied, muts>>

\* The controller's processLoop handles the oldest queued delta.
ApplyEvent ==
    /\ Idle
    /\ synced
    /\ InformerRuns
    /\ watch # <<>>
    /\ LET ev == Head(watch) IN
        /\ mirror' = ApplyDelta(mirror, ev)
        /\ applied' = [applied EXCEPT ![ev.key] = ev]
        /\ muts' = IF muts[ev.key] = NoMut THEN muts
                   ELSE IF ev.type = "Modified" /\ ev.obj.rv = muts[ev.key].rv
                   THEN [muts EXCEPT ![ev.key] = NoMut]
                   ELSE [muts EXCEPT ![ev.key].clean = FALSE]
    /\ watch' = Tail(watch)
    /\ last' = NoCall
    /\ UNCHANGED <<stopChClosed, pending, grace,
                   limit, keep, posts, feed, canList, synced, backoff,
                   phase, store, rv, watchUp, watchErrors>>

\* The watch connection fails; changes made meanwhile are not delivered.
WatchError ==
    /\ Idle
    /\ phase = "serving"
    /\ watchUp
    /\ watchErrors < MaxWatchErrors
    /\ watchUp' = FALSE
    /\ watchErrors' = watchErrors + 1
    /\ last' = NoCall
    /\ UNCHANGED <<stopChClosed, pending, grace,
                   limit, keep, posts, feed, canList, synced, backoff,
                   phase, store, rv, mirror, watch, applied, muts>>

\* The reflector lists again and reopens the watch.
Relist ==
    /\ Idle
    /\ phase = "serving"
    /\ ~watchUp
    /\ watch' = watch \o ReplaceDeltas(store)
    /\ watchUp' = TRUE
    /\ last' = NoCall
    /\ UNCHANGED <<stopChClosed, pending, grace,
                   limit, keep, posts, feed, canList, synced, backoff,
                   phase, store, rv, mirror, watchErrors, applied, muts>>

\* DeltaFIFO.Resync: a Sync delta with the indexer's own object for every
\* indexed key that has no delta queued; the store is not contacted.
ResyncDeltas(ix) ==
    LET d(k) == IF k \in DOMAIN ix
                    /\ ~\E i \in 1..Len(watch) : watch[i].key = k
                THEN Delta("Sync", ix[k])
                ELSE NoDelta
        all == [i \in 1..Len(KeySeq) |-> d(KeySeq[i])]
    IN  SelectSeq(all, LAMBDA e : e.type # "None")

\* The factory's resync period (ten minutes) has passed while the
\* reflector watches.
Resync ==
    /\ Idle
    /\ InformerRuns
    /\ synced
    /\ watchUp
    /\ ResyncDeltas(mirror) # <<>>
    /\ watch' = watch \o ResyncDeltas(mirror)
    /\ last' = NoCall
    /\ UNCHANGED <<stopChClosed, pending, grace,
                   limit, keep, posts, feed, canList, synced, backoff,
                   phase, store, rv, mirror, watchUp, watchErrors, applied,
                   muts>>

\* ------------------------------------------------------------ handlers
Resp(code, msg, value, items, calls, lookups) ==
    [code |-> code, msg |-> msg, value |-> value, items |-> items,
     calls |-> calls, lookups |-> lookups]

\* One call to the store's API, with the error it returned.
StoreCall(verb, ns, name, n, err) ==
    [verb |-> verb, ns |-> ns, name |-> name, replicas |-> n, err |-> err]

\* Variant of validateQueryParams: rejects only when both are missing.
validateQueryParamsBothEmpty(namespace, deploymentName) ==
    IF namespace = "" /\ deploymentName = ""
    THEN [err |-> TRUE, namespace |-> "", deploymentName |-> "",
          code |-> StatusBadRequest,
          msg |-> "Both namespace and deployment must be specified"]
    ELSE [err |-> FALSE, namespace |-> namespace,
          deploymentName |-> deploymentName, code |-> StatusOK, msg |-> ""]

validateQueryParams(namespace, deploymentName) ==
    IF namespace = "" \/ deploymentName = ""
    THEN [err |-> TRUE, namespace |-> "", deploymentName |-> "",
          code |-> StatusBadRequest,
          msg |-> "Both namespace and deployment must be specified"]
    ELSE [err |-> FALSE, namespace |-> namespace,
          deploymentName |-> deploymentName, code |-> StatusOK, msg |-> ""]

\* Variant of getDeploymentFromCache: the deployment is fetched from the
\* store with clientset.AppsV1().Deployments(namespace).Get.
getDeploymentFromStore(namespace, name, lister) ==
    LET k == <<namespace, name>> IN
    IF k \in DOMAIN store
    THEN [exists |-> TRUE, deployment |-> store[k],
          calls |-> <<StoreCall("Get", namespace, name, NoValue, "none")>>]
    ELSE [exists |-> FALSE, deployment |-> Deployment(k, NoReplicas, 0),
          calls |-> <<StoreCall("Get", namespace, name, NoValue,
                               "notfound")>>]

\* deploymentLister.Deployments(namespace).Get(name): a read of the
\* indexer, no call to the store.
getDeploymentFromCache(namespace, name, lister) ==
    IF <<namespace, name>> \in DOMAIN lister
    THEN [exists |-> TRUE, deployment |-> lister[<<namespace, name>>],
          calls |-> <<>>]
    ELSE [exists |-> FALSE,
          deployment |-> Deployment(<<namespace, name>>, NoReplicas, 0),
          calls |-> <<>>]

\* Variant of GetResponse: the placeholder count of the first handlers.
GetResponsePlaceholder(deployment, calls) ==
    Resp(StatusOK, "", 3, <<>>, calls, 1)

\* {"replicaCount": *deployment.Spec.Replicas}: the dereference of a nil
\* pointer panics before anything is written.
GetResponse(deployment, calls) ==
    IF deployment.replicas = NoReplicas
    THEN Resp(NoStatus, "panic: nil pointer dereference", NoValue, <<>>,
              calls, 1)
    ELSE Resp(StatusOK, "", deployment.replicas, <<>>, calls, 1)

GetReplicaCount(namespace, deploymentName, lister) ==
    LET v == validateQueryParams(namespace, deploymentName)
        d == getDeploymentFromCache(v.namespace, v.deploymentName, lister)
    IN  IF v.err THEN Resp(v.code, v.msg, NoValue, <<>>, <<>>, 0)
        ELSE IF ~d.exists
        THEN Resp(StatusNotFound, "Deployment not found", NoValue, <<>>,
                  d.calls, 1)
        ELSE GetResponse(d.deployment, d.calls)

\* json.NewDecoder(r.Body).Decode into struct{ Replicas int32 }
Decode(body) ==
    IF body.kind = "malformed" THEN [err |-> TRUE, Replicas |-> 0]
    ELSE IF body.kind = "empty" THEN [err |-> FALSE, Replicas |-> 0]
    ELSE IF body.kind = "outOfRange" THEN [err |-> TRUE, Replicas |-> 0]
    ELSE [err |-> FALSE, Replicas |-> body.n]

\* Variant of InvalidReplicas: only counts below -1 are rejected.
InvalidReplicasOffByOne(n) == n < -1

\* reqBody.Replicas < 0
InvalidReplicas(n) == n < 0

\* Variant of NewScale: Spec.Replicas is left at its zero value.
NewScaleZeroReplicas(namespace, deploymentName, n) ==
    [ns |-> namespace, name |-> deploymentName, replicas |-> 0]

\* The autoscalingv1.Scale sent to the store.
NewScale(namespace, deploymentName, n) ==
    [ns |-> namespace, name |-> deploymentName, replicas |-> n]

\* Variant of UpdateError: a conflict is taken as settled by the other
\* writer and answered like a success.
UpdateErrorConflictIgnored(err, calls) ==
    IF IsNotFound(err)
    THEN Resp(StatusNotFound, "Deployment not found", NoValue, <<>>, calls, 0)
    ELSE IF err = "conflict"
    THEN Resp(StatusOK, "", calls[1].replicas, <<>>, calls, 0)
    ELSE Resp(StatusInternalServerError, "Failed to update deployment scale",
              NoValue, <<>>, calls, 0)

\* Variant of UpdateError: errors.IsNotFound is not consulted.
UpdateErrorAlways500(err, calls) ==
    Resp(StatusInternalServerError, "Failed to update deployment scale",
         NoValue, <<>>, calls, 0)

\* Variant of UpdateError: every failure is reported as not found.
UpdateErrorAlways404(err, calls) ==
    Resp(StatusNotFound, "Deployment not found", NoValue, <<>>, calls, 0)

\* The response to a failed UpdateScale.
UpdateError(err, calls) ==
    IF IsNotFound(err)
    THEN Resp(StatusNotFound, "Deployment not found", NoValue, <<>>, calls, 0)
    ELSE Resp(StatusInternalServerError, "Failed to update deployment scale",
              NoValue, <<>>, calls, 0)

\* {"replicaCount": reqBody.Replicas}
PostResponse(n, calls) == Resp(StatusOK, "", n, <<>>, calls, 0)

\* Variant of PostReplicaCount: the deployment is looked up in the cache
\* before the update, as the handler that updated through the cache did.
PostReplicaCountViaCache(namespace, deploymentName, body, fault, st, ver) ==
    LET v == validateQueryParams(namespace, deploymentName)
        reqBody == Decode(body)
        scale == NewScale(v.namespace, v.deploymentName, reqBody.Replicas)
        u == UpdateScale(st, ver, v.namespace, v.deploymentName,
                         scale.replicas, fault)
        calls == <<StoreCall("UpdateScale", scale.ns, scale.name,
                             scale.replicas, u.err)>>
        same(r) == [resp |-> r, store |-> st, rv |-> ver, events |-> <<>>]
        done(r) == [resp |-> r, store |-> u.store, rv |-> u.rv,
                    events |-> u.events]
    IN  IF v.err THEN same(Resp(v.code, v.msg, NoValue, <<>>, <<>>, 0))
        ELSE IF reqBody.err
        THEN same(Resp(StatusBadRequest, "Invalid request body", NoValue,
                       <<>>, <<>>, 0))
        ELSE IF InvalidReplicas(reqBody.Replicas)
        THEN same(Resp(StatusBadRequest, "Replica count must be non-negative",
                       NoValue, <<>>, <<>>, 0))
        ELSE IF <<namespace, deploymentName>> \notin DOMAIN mirror
        THEN same(Resp(StatusNotFound, "Deployment not found in cache",
                       NoValue, <<>>, <<>>, 1))
        ELSE IF u.err # "none" THEN done(UpdateError(u.err, calls))
        ELSE done(PostResponse(reqBody.Replicas, calls))

\* Variant of PostReplicaCount: an UpdateScale that failed with another
\* error than not-found is issued a second time.
PostReplicaCountRetries(namespace, deploymentName, body, fault, st, ver) ==
    LET v == validateQueryParams(namespace, deploymentName)
        reqBody == Decode(body)
        scale == NewScale(v.namespace, v.deploymentName, reqBody.Replicas)
        u == UpdateScale(st, ver, v.namespace, v.deploymentName,
                         scale.replicas, fault)
        again == u.err \notin {"none", "notfound"}
        u2 == UpdateScale(u.store, u.rv, v.namespace, v.deploymentName,
                          scale.replicas, fault)
        call(err) == StoreCall("UpdateScale", scale.ns, scale.name,
                               scale.replicas, err)
        calls == IF again THEN <<call(u.err), call(u2.err)>>
                 ELSE <<call(u.err)>>
        w == IF again THEN u2 ELSE u
        same(r) == [resp |-> r, store |-> st, rv |-> ver, events |-> <<>>]
        done(r) == [resp |-> r, store |-> w.store, rv |-> w.rv,
                    events |-> IF again THEN u.events \o u2.events
                               ELSE u.events]
    IN  IF v.err THEN same(Resp(v.code, v.msg, NoValue, <<>>, <<>>, 0))
        ELSE IF reqBody.err
        THEN same(Resp(StatusBadRequest, "Invalid request body", NoValue,
                       <<>>, <<>>, 0))
        ELSE IF InvalidReplicas(reqBody.Replicas)
        THEN same(Resp(StatusBadRequest, "Replica count must be non-negative",
                       NoValue, <<>>, <<>>, 0))
        ELSE IF w.err # "none" THEN done(UpdateError(w.err, calls))
        ELSE done(PostResponse(reqBody.Replicas, calls))

\* The response, and the store after the call.
PostReplicaCount(namespace, deploymentName, body, fault, st, ver) ==
    LET v == validateQueryParams(namespace, deploymentName)
        reqBody == Decode(body)
        scale == NewScale(v.namespace, v.deploymentName, reqBody.Replicas)
        u == UpdateScale(st, ver, v.namespace, v.deploymentName,
                         scale.replicas, fault)
        calls == <<StoreCall("UpdateScale", scale.ns, scale.name,
                             scale.replicas, u.err)>>
        same(r) == [resp |-> r, store |-> st, rv |-> ver, events |-> <<>>]
        done(r) == [resp |-> r, store |-> u.store, rv |-> u.rv,
                    events |-> u.events]
    IN  IF v.err THEN same(Resp(v.code, v.msg, NoValue, <<>>, <<>>, 0))
        ELSE IF reqBody.err
        THEN same(Resp(StatusBadRequest, "Invalid request body", NoValue,
                       <<>>, <<>>, 0))
        ELSE IF InvalidReplicas(reqBody.Replicas)
        THEN same(Resp(StatusBadRequest, "Replica count must be non-negative",
                       NoValue, <<>>, <<>>, 0))
        ELSE IF u.err # "none" THEN done(UpdateError(u.err, calls))
        ELSE done(PostResponse(reqBody.Replicas, calls))

\* Variant of PostCache: the cached object's Spec.Replicas is overwritten,
\* as the handler that updated through the cache did.
PostCacheWriteThrough(lister, namespace, deploymentName, n) ==
    LET k == <<namespace, deploymentName>> IN
    IF k \in DOMAIN lister /\ n # NoValue
    THEN Put(lister, k, [lister[k] EXCEPT !.replicas = n])
    ELSE lister

\* What PostReplicaCount does to the lister's objects: it is not handed
\* the lister and leaves them alone.
PostCache(lister, namespace, deploymentName, n) == lister

\* Variant of Render: the namespace is left out.
RenderNameOnly(deployment) == deployment.name

\* fmt.Sprintf("%s/%s", deployment.Namespace, deployment.Name)
Render(deployment) == deployment.ns \o "/" \o deployment.name

\* deploymentLister.Deployments(namespace).List(labels.Everything()): the
\* indexed objects of the namespace (all of them for ""), in the order
\* the indexer's map yields them.
ListerList(lister, namespace) ==
    LET ks == {k \in DOMAIN lister :
                   namespace = "" \/ lister[k].ns = namespace}
    IN  {[i \in 1..Cardinality(ks) |-> lister[f[i]]] :
            f \in {g \in [1..Cardinality(ks) -> ks] :
                      \A i, j \in 1..Cardinality(ks) :
                          g[i] = g[j] => i = j}}

ListDeployments(list) ==
    Resp(StatusOK, "", NoValue, [i \in 1..Len(list) |-> Render(list[i])],
         <<>>, 1)

\* Variant of HealthCheck: the answer of the version probe is ignored, as
\* in the handler that always answered OK.
HealthCheckIgnoresProbe(up) ==
    Resp(StatusOK, "OK", NoValue, <<>>,
         <<StoreCall("ServerVersion", "", "", NoValue,
                     IF up THEN "none" ELSE "unavailable")>>, 0)

\* Variant of HealthCheck: a failed probe is reported as an internal
\* server error.
HealthCheckInternalError(up) ==
    IF ~up
    THEN Resp(StatusInternalServerError, "Internal server error", NoValue,
              <<>>,
              <<StoreCall("ServerVersion", "", "", NoValue, "unavailable")>>,
              0)
    ELSE Resp(StatusOK, "OK", NoValue, <<>>,
              <<StoreCall("ServerVersion", "", "", NoValue, "none")>>, 0)

\* clientset.Discovery().ServerVersion() answered (up) or failed.
HealthCheck(up) ==
    IF ~up
    THEN Resp(StatusServiceUnavailable, "Kubernetes connectivity check failed",
              NoValue, <<>>,
              <<StoreCall("ServerVersion", "", "", NoValue, "unavailable")>>,
              0)
    ELSE Resp(StatusOK, "OK", NoValue, <<>>,
              <<StoreCall("ServerVersion", "", "", NoValue, "none")>>, 0)

\* The call that has just returned, with the store and the Mirror as they
\* were when it began.
Call(op, ns, name, body, resp) ==
    [op |-> op, ns |-> ns, name |-> name, body |-> body,
     code |-> resp.code, msg |-> resp.msg, value |-> resp.value,
     items |-> resp.items, calls |-> resp.calls, lookups |-> resp.lookups,
     preStore |-> store, preMirror |-> mirror]

\* GET /replica-count
DoGet(ns, name) ==
    /\ Idle
    /\ phase = "serving"
    /\ last' = Call("get", ns, name, BodyEmpty,
                    GetReplicaCount(ns, name, mirror))
    /\ UNCHANGED <<stopChClosed, pending, grace,
                   limit, keep, posts, feed, canList, synced, backoff,
                   phase, store, rv, mirror, watch, watchUp, watchErrors,
                   applied, muts>>

MirroredCount(k) ==
    IF k \in DOMAIN mirror THEN mirror[k].replicas ELSE NoReplicas

\* Variant of Expired: the context has no deadline, as the
\* context.TODO() of the handler that updated through the cache.
ExpiredNever(waited) == FALSE

\* context.WithTimeout(r.Context(), 10*time.Second): the deadline of the
\* context handed to UpdateScale has passed.
Expired(waited) == waited >= UpdateTimeout

\* Variant of RequestDone: the request's context and the informers share
\* the stop channel.
RequestDoneClosesStop(stopped) == TRUE

\* What the end of the request's context (deadline, cancellation, the
\* deferred cancel) does to main's stopCh: the context derives from
\* r.Context() and the channel is not its.
RequestDone(stopped) == stopped

\* POST /replica-count
\* What is kept of a post call: the key and count asked for, whether the
\* store held the key, the error UpdateScale returned if it was called,
\* and the response.
PostRecord(k, body, p) ==
    [key |-> k, n |-> Decode(body).Replicas, present |-> k \in DOMAIN store,
     called |-> p.resp.calls # <<>>,
     err |-> IF p.resp.calls = <<>> THEN "none" ELSE p.resp.calls[1].err,
     code |-> p.resp.code, value |-> p.resp.value]

Post(ns, name, body, fault) ==
    /\ Idle
    /\ keep > 0 => Len(posts) < keep
    /\ LET p == PostReplicaCount(ns, name, body, fault, store, rv)
           k == <<ns, name>>
       IN
        /\ p.rv <= limit
        /\ store' = p.store
        /\ rv' = p.rv
        /\ watch' = IF watchUp THEN watch \o p.events ELSE watch
        /\ mirror' = PostCache(mirror, ns, name, p.resp.value)
        /\ last' = Call("post", ns, name, body, p.resp)
        /\ stopChClosed' = RequestDone(stopChClosed)
        /\ posts' = IF keep > 0 THEN Append(posts, PostRecord(k, body, p))
                    ELSE posts
        /\ muts' = IF p.resp.code = StatusOK /\ p.events # <<>> /\ watchUp
                   THEN [muts EXCEPT ![k] =
                            [n |-> p.resp.value, m |-> MirroredCount(k),
                             rv |-> p.rv, clean |-> TRUE]]
                   ELSE muts
    /\ UNCHANGED <<grace,
                   limit, keep, feed, canList, synced, backoff, phase,
                   watchUp, watchErrors, applied>>

\* POST /replica-count, answered by the store at once.
DoPost(ns, name, body, fault) ==
    /\ phase = "serving"
    /\ Post(ns, name, body, fault)
    /\ UNCHANGED pending

\* POST /replica-count has passed its checks and UpdateScale waits for
\* the store's answer.
PostBegin(ns, name, body) ==
    /\ Idle
    /\ phase = "serving"
    /\ pending = NoPending
    /\ PostReplicaCount(ns, name, body, "none", store, rv).resp.calls # <<>>
    /\ pending' = [ns |-> ns, name |-> name, body |-> body, waited |-> 0]
    /\ last' = NoCall
    /\ UNCHANGED <<stopChClosed, grace,
                   limit, keep, posts, feed, canList, synced, backoff,
                   phase, store, rv, mirror, watch, watchUp, watchErrors,
                   applied, muts>>

\* The answers that are the request context's error; the store may have
\* applied the write all the same.
ContextFaults == {"timeout", "timeoutApplied"}

\* The store answers the waiting UpdateScale before the context is done.
PostAnswered(fault) ==
    /\ pending # NoPending
    /\ phase \in {"serving", "draining"}
    /\ fault \notin ContextFaults
    /\ ~Expired(pending.waited)
    /\ Post(pending.ns, pending.name, pending.body, fault)
    /\ pending' = NoPending

\* The ten seconds are over: UpdateScale returns the context's error and
\* the handler answers.
PostDeadline(fault) ==
    /\ pending # NoPending
    /\ phase \in {"serving", "draining"}
    /\ fault \in ContextFaults
    /\ Expired(pending.waited)
    /\ Post(pending.ns, pending.name, pending.body, fault)
    /\ pending' = NoPending

\* The caller goes away and r.Context() is cancelled: UpdateScale
\* returns the context's error and the handler ends.
PostCancelled(fault) ==
    /\ pending # NoPending
    /\ phase \in {"serving", "draining"}
    /\ fault \in ContextFaults
    /\ ~Expired(pending.waited)
    /\ Post(pending.ns, pending.name, pending.body, fault)
    /\ pending' = NoPending

\* A second passes for the waiting UpdateScale, and for server.Shutdown
\* when it waits for it; a timer that is due fires before the next
\* second.
Tick ==
    /\ Idle
    /\ phase \in {"serving", "draining"}
    /\ pending # NoPending
    /\ pending.waited < UpdateTimeout
    /\ phase = "draining" => grace < ShutdownTimeout
    /\ pending' = [pending EXCEPT !.waited = @ + 1]
    /\ grace' = IF phase = "draining" THEN grace + 1 ELSE grace
    /\ last' = NoCall
    /\ UNCHANGED <<stopChClosed,
                   limit, keep, posts, feed, canList, synced, backoff,
                   phase, store, rv, mirror, watch, watchUp, watchErrors,
                   applied, muts>>

\* GET /deployments
DoList(ns) ==
    /\ Idle
    /\ phase = "serving"
    /\ \E list \in ListerList(mirror, ns) :
        last' = Call("list", ns, "", BodyEmpty, ListDeployments(list))
    /\ UNCHANGED <<stopChClosed, pending, grace,
                   limit, keep, posts, feed, canList, synced, backoff,
                   phase, store, rv, mirror, watch, watchUp, watchErrors,
                   applied, muts>>

\* GET /healthz
DoHealth(up) ==
    /\ Idle
    /\ phase = "serving"
    /\ last' = Call("health", "", "", BodyEmpty, HealthCheck(up))
    /\ UNCHANGED <<stopChClosed, pending, grace,
                   limit, keep, posts, feed, canList, synced, backoff,
                   phase, store, rv, mirror, watch, watchUp, watchErrors,
                   applied, muts>>

\* The response has been written and the handler returns.
Return ==
    /\ last # NoCall
    /\ last' = NoCall
    /\ UNCHANGED <<stopChClosed, pending, grace,
                   limit, keep, posts, feed, canList, synced, backoff,
                   phase, store, rv, mirror, watch, watchUp, watchErrors,
                   applied, muts>>

\* SIGINT or SIGTERM arrives: <-stop returns and main calls
\* server.Shutdown, which closes the listeners.
Shutdown ==
    /\ Idle
    /\ phase = "serving"
    /\ phase' = "draining"
    /\ grace' = 0
    /\ last' = NoCall
    /\ UNCHANGED <<stopChClosed, pending,
                   limit, keep, posts, feed, canList, synced, backoff,
                   store, rv, mirror, watch, watchUp, watchErrors,
                   applied, muts>>

\* No request is in flight: server.Shutdown returns nil.
ShutdownDone ==
    /\ Idle
    /\ phase = "draining"
    /\ pending = NoPending
    /\ phase' = "drained"
    /\ last' = NoCall
    /\ UNCHANGED <<stopChClosed, pending, grace,
                   limit, keep, posts, feed, canList, synced, backoff,
                   store, rv, mirror, watch, watchUp, watchErrors,
                   applied, muts>>

\* The five seconds are over with a request in flight: server.Shutdown
\* returns the context's error and main ends in log.Fatalf, which exits
\* without running the deferred calls.
ShutdownExpired ==
    /\ Idle
    /\ phase = "draining"
    /\ pending # NoPending
    /\ grace >= ShutdownTimeout
    /\ phase' = "fatal"
    /\ last' = NoCall
    /\ UNCHANGED <<stopChClosed, pending, grace,
                   limit, keep, posts, feed, canList, synced, backoff,
                   store, rv, mirror, watch, watchUp, watchErrors,
                   applied, muts>>

\* main returns and its deferred close(stopCh) runs.
CloseStop ==
    /\ Idle
    /\ phase = "drained"
    /\ ~stopChClosed
    /\ stopChClosed' = TRUE
    /\ last' = NoCall
    /\ UNCHANGED <<pending, grace,
                   limit, keep, posts, feed, canList, synced, backoff,
                   phase, store, rv, mirror, watch, watchUp, watchErrors,
                   applied, muts>>

\* The process ends after main's deferred calls.
Exit ==
    /\ Idle
    /\ phase = "drained"
    /\ stopChClosed
    /\ phase' = "exited"
    /\ last' = NoCall
    /\ UNCHANGED <<stopChClosed, pending, grace,
                   limit, keep, posts, feed, canList, synced, backoff,
                   store, rv, mirror, watch, watchUp, watchErrors,
                   applied, muts>>

\* ------------------------------------------------------- specification
Init ==
    /\ phase = "init"
    /\ canList = TRUE
    /\ synced = FALSE
    /\ backoff = FALSE
    /\ store = Empty
    /\ rv = 0
    /\ limit = MaxRV
    /\ feed = <<>>
    /\ keep = 0
    /\ posts = <<>>
    /\ mirror = Empty
    /\ watch = <<>>
    /\ watchUp = FALSE
    /\ watchErrors = 0
    /\ applied = [k \in Keys |-> NoDelta]
    /\ muts = [k \in Keys |-> NoMut]
    /\ stopChClosed = FALSE
    /\ pending = NoPending
    /\ grace = NoGrace
    /\ last = NoCall

\* Other clients of the store.
StoreNext ==
    \/ \E k \in Keys, r \in Replicas \cup {NoReplicas} : ExtCreate(k, r)
    \/ \E k \in Keys, n \in Replicas : ExtScale(k, n)
    \/ \E k \in Keys : ExtDelete(k)

\* The HTTP handlers of setupHandlers.
HandlerNext ==
    \/ \E ns \in ReqNamespaces, name \in ReqNames : DoGet(ns, name)
    \/ \E ns \in ReqNamespaces, name \in ReqNames, body \in Bodies,
          fault \in Faults : DoPost(ns, name, body, fault)
    \/ \E ns \in ReqNamespaces : DoList(ns)
    \/ \E up \in BOOLEAN : DoHealth(up)
    \/ Return

\* The service while the reflector's watch stays connected.
Next ==
    \/ StoreNext
    \/ InitialList
    \/ Start
    \/ StartFails
    \/ ApplyEvent
    \/ HandlerNext

Spec == Init /\ [][Next]_vars

\* The same service in runs one store write longer, serving valid requests.
InitLong ==
    /\ phase = "init"
    /\ canList = TRUE
    /\ synced = FALSE
    /\ backoff = FALSE
    /\ store = Empty
    /\ rv = 0
    /\ limit = MaxRV + 1
    /\ feed = <<>>
    /\ keep = 0
    /\ posts = <<>>
    /\ mirror = Empty
    /\ watch = <<>>
    /\ watchUp = FALSE
    /\ watchErrors = 0
    /\ applied = [k \in Keys |-> NoDelta]
    /\ muts = [k \in Keys |-> NoMut]
    /\ stopChClosed = FALSE
    /\ pending = NoPending
    /\ grace = NoGrace
    /\ last = NoCall

\* The handlers called with requests that pass validation: both query
\* parameters name a key and the body decodes to a non-negative count.
HandlerNextValid ==
    \/ \E k \in Keys : DoGet(k[1], k[2])
    \/ \E k \in Keys, n \in Replicas, fault \in Faults :
          DoPost(k[1], k[2], BodyOf(n), fault)
    \/ \E ns \in ReqNamespaces : DoList(ns)
    \/ \E up \in BOOLEAN : DoHealth(up)
    \/ Return

NextLong ==
    \/ StoreNext
    \/ InitialList
    \/ Start
    \/ StartFails
    \/ ApplyEvent
    \/ HandlerNextValid

SpecLong == InitLong /\ [][NextLong]_vars

\* The service with watch failures and re-lists.
NextWatch ==
    \/ Next
    \/ WatchError
    \/ Relist

SpecWatch == Init /\ [][NextWatch]_vars

\* The service when the store may refuse the informer's list calls.
InitStartup ==
    /\ phase = "init"
    /\ canList \in BOOLEAN
    /\ synced = FALSE
    /\ backoff = FALSE
    /\ store = Empty
    /\ rv = 0
    /\ limit = MaxRV
    /\ feed = <<>>
    /\ keep = 0
    /\ posts = <<>>
    /\ mirror = Empty
    /\ watch = <<>>
    /\ watchUp = FALSE
    /\ watchErrors = 0
    /\ applied = [k \in Keys |-> NoDelta]
    /\ muts = [k \in Keys |-> NoMut]
    /\ stopChClosed = FALSE
    /\ pending = NoPending
    /\ grace = NoGrace
    /\ last = NoCall

NextStartup ==
    \/ Next
    \/ ListFails
    \/ ListRetry

\* main's goroutine and the reflector's keep running.
FairStartup ==
    /\ WF_vars(InitialList)
    /\ WF_vars(ListFails)
    /\ WF_vars(ListRetry)
    /\ WF_vars(Start \/ StartFails)

SpecStartup == InitStartup /\ [][NextStartup]_vars /\ FairStartup

\* The service called with two valid post requests, both kept in posts.
InitRace ==
    /\ phase = "init"
    /\ canList = TRUE
    /\ synced = FALSE
    /\ backoff = FALSE
    /\ store = Empty
    /\ rv = 0
    /\ limit = MaxRV + 1
    /\ feed = <<>>
    /\ keep = 2
    /\ posts = <<>>
    /\ mirror = Empty
    /\ watch = <<>>
    /\ watchUp = FALSE
    /\ watchErrors = 0
    /\ applied = [k \in Keys |-> NoDelta]
    /\ muts = [k \in Keys |-> NoMut]
    /\ stopChClosed = FALSE
    /\ pending = NoPending
    /\ grace = NoGrace
    /\ last = NoCall

\* The store accepts a write or refuses it with a conflict.
RaceFaults == {"none", "conflict"}

NextRace ==
    \/ \E k \in Keys, r \in Replicas \cup {NoReplicas} : ExtCreate(k, r)
    \/ InitialList
    \/ Start
    \/ ApplyEvent
    \/ \E k \in Keys, n \in Replicas, fault \in RaceFaults :
          DoPost(k[1], k[2], BodyOf(n), fault)
    \/ Return

SpecRace == InitRace /\ [][NextRace]_vars

\* The service beside a client that changes deployments outside
\* spec.replicas, called with valid post requests.
NextPayload ==
    \/ \E k \in Keys, r \in Replicas : ExtCreate(k, r)
    \/ \E k \in Keys : ExtPatch(k)
    \/ InitialList
    \/ Start
    \/ ApplyEvent
    \/ \E k \in Keys, n \in Replicas, fault \in Faults :
          DoPost(k[1], k[2], BodyOf(n), fault)
    \/ Return

SpecPayload == InitLong /\ [][NextPayload]_vars

\* The informer with watch failures, re-lists and periodic resyncs,
\* beside clients that write the store.
NextResync ==
    \/ StoreNext
    \/ InitialList
    \/ Start
    \/ ApplyEvent
    \/ WatchError
    \/ Relist
    \/ Resync

\* The informer's goroutines keep running; the resync timer is not
\* needed to.
FairResync ==
    /\ WF_vars(InitialList)
    /\ WF_vars(ApplyEvent)
    /\ WF_vars(Relist)

SpecResync == Init /\ [][NextResync]_vars /\ FairResync

\* The informer fed a sequence of watch events for one key, in any order
\* of resource versions; a resource version names one state of the object.
FeedKey == <<"default", "web">>
ReplicasAt(ver) == ver % (MaxReplicas + 1)
FeedEvents ==
    {Delta(t, Deployment(FeedKey, ReplicasAt(ver), ver)) :
        t \in {"Added", "Modified"}, ver \in 1..MaxFeed}
Feeds == UNION {[1..n -> FeedEvents] : n \in 0..MaxFeed}

InitApply ==
    /\ phase = "serving"
    /\ canList = TRUE
    /\ synced = TRUE
    /\ backoff = FALSE
    /\ store = Empty
    /\ rv = 0
    /\ limit = 0
    /\ feed \in Feeds
    /\ keep = 0
    /\ posts = <<>>
    /\ mirror = Empty
    /\ watch = feed
    /\ watchUp = TRUE
    /\ watchErrors = 0
    /\ applied = [k \in Keys |-> NoDelta]
    /\ muts = [k \in Keys |-> NoMut]
    /\ stopChClosed = FALSE
    /\ pending = NoPending
    /\ grace = NoGrace
    /\ last = NoCall

NextApply == ApplyEvent

SpecApply == InitApply /\ [][NextApply]_vars

\* The service called with valid post requests for one deployment, whose
\* UpdateScale waits for a store that answers in time, late or never.
NextTimeout ==
    \/ \E r \in Replicas : ExtCreate(FeedKey, r)
    \/ InitialList
    \/ Start
    \/ ApplyEvent
    \/ \E n \in Replicas : PostBegin(FeedKey[1], FeedKey[2], BodyOf(n))
    \/ \E fault \in RaceFaults : PostAnswered(fault)
    \/ \E fault \in Faults : PostDeadline(fault)
    \/ Tick
    \/ Return

\* Time passes, a timer that is due fires, and a handler that has
\* answered returns; nothing makes the store answer.
FairTimeout ==
    /\ WF_vars(Tick)
    /\ WF_vars(\E fault \in Faults : PostDeadline(fault))
    /\ WF_vars(Return)

SpecTimeout == Init /\ [][NextTimeout]_vars /\ FairTimeout

\* The same service with callers that go away and a termination signal.
NextShutdown ==
    \/ NextTimeout
    \/ \E fault \in Faults : PostCancelled(fault)
    \/ Shutdown
    \/ ShutdownDone
    \/ ShutdownExpired
    \/ CloseStop
    \/ Exit

SpecShutdown == Init /\ [][NextShutdown]_vars

\* -------------------------------------------------------------- claims
\* The key a get or post call named.
CallKey == <<last.ns, last.name>>
\* The post call's body asks for a count below zero.
AsksNegative == Asks(last.body) /\ last.body.n < 0
\* The post call issued UpdateScale and the store answered err.
Answered(err) == last.calls # <<>> /\ last.calls[1].err = err

\* C1: a post for a key present in the store with a count N >= 0 whose
\* UpdateScale the store accepts answers 200 with replicaCount = N, and
\* when it has returned the store's object holds replicas = N.
C1_AcceptedWriteApplied ==
    (/\ last.op = "post"
     /\ CallKey \in DOMAIN last.preStore
     /\ last.body.kind = "number"
     /\ last.body.n >= 0
     /\ Answered("none"))
    => /\ last.code = StatusOK
       /\ last.value = last.body.n
       /\ CallKey \in DOMAIN store
       /\ store[CallKey].replicas = last.body.n

\* C1 witness: an accepted scale to zero of a deployment that had one
\* replica.
C1_Witness ==
    /\ last.op = "post"
    /\ last.body = BodyOf(0)
    /\ last.code = StatusOK
    /\ CallKey \in DOMAIN last.preStore
    /\ last.preStore[CallKey].replicas = 1
    /\ store[CallKey].replicas = 0

C3_NotFoundChangesNothing ==
    /\ (last.op = "post" /\ Answered("notfound"))
        => /\ last.code = StatusNotFound
           /\ store = last.preStore
           /\ mirror = last.preMirror
    /\ (last.op = "list" /\ last.preMirror = Empty) => last.items = <<>>

\* C3 witness: a count of 1 asked of a missing deployment, the store and
\* the Mirror both empty.
C3_Witness ==
    /\ last.op = "post"
    /\ last.body = BodyOf(1)
    /\ last.code = StatusNotFound
    /\ store = Empty
    /\ mirror = Empty

\* C4: a post whose UpdateScale fails with anything but not-found
\* (conflict, forbidden, unavailable, timeout) answers 500 "Failed to
\* update deployment scale".
C4_OtherFailuresAre500 ==
    (/\ last.op = "post"
     /\ last.calls # <<>>
     /\ last.calls[1].err \notin {"none", "notfound"})
    => /\ last.code = StatusInternalServerError
       /\ last.msg = "Failed to update deployment scale"

\* C4 witness: a conflict on a deployment the store holds.
C4_Witness ==
    /\ last.op = "post"
    /\ CallKey \in DOMAIN store
    /\ Answered("conflict")
    /\ last.code = StatusInternalServerError

\* C5 as stated: a get with a non-empty namespace and name answers 200
\* with the Mirror's replica count when the key is in the Mirror, and 404
\* when it is not, whatever the store holds.
C5_GetAnswersFromMirror ==
    (last.op = "get" /\ last.ns # "" /\ last.name # "")
    => IF CallKey \in DOMAIN last.preMirror
       THEN /\ last.code = StatusOK
            /\ last.value = last.preMirror[CallKey].replicas
       ELSE last.code = StatusNotFound

\* The namespace/name string of a key.
KeyString(k) == k[1] \o "/" \o k[2]
\* The Mirror keys a list call with this namespace filter is to return.
Listed(ix, ns) == {k \in DOMAIN ix : ns = "" \/ k[1] = ns}

\* C6: a list answers 200 with exactly the Mirror's keys whose namespace
\* is the filter (all keys for the empty filter), each once, as
\* namespace/name.
C6_ListIsTheMirrorsKeys ==
    last.op = "list"
    => /\ last.code = StatusOK
       /\ {last.items[i] : i \in 1..Len(last.items)}
            = {KeyString(k) : k \in Listed(last.preMirror, last.ns)}
       /\ Len(last.items) = Cardinality(Listed(last.preMirror, last.ns))

\* C6 witness: with web mirrored in both namespaces, the list of all
\* namespaces has two entries.
C6_Witness ==
    /\ last.op = "list"
    /\ last.ns = ""
    /\ DOMAIN last.preMirror = Keys
    /\ Len(last.items) = 2
    /\ last.items[1] # last.items[2]

\* C7: a get or a post with an empty namespace or an empty name answers
\* 400 without a lister lookup and without a call to the store, whatever
\* the body.
C7_MissingKeyRejected ==
    (last.op \in {"get", "post"} /\ (last.ns = "" \/ last.name = ""))
    => /\ last.code = StatusBadRequest
       /\ last.lookups = 0
       /\ last.calls = <<>>
       /\ store = last.preStore

\* C7 witness: a post without a namespace that asks for 1 replica of a
\* name the store holds in the default namespace.
C7_Witness ==
    /\ last.op = "post"
    /\ last.ns = ""
    /\ last.name = "web"
    /\ last.body = BodyOf(1)
    /\ <<"default", "web">> \in DOMAIN store
    /\ last.code = StatusBadRequest

\* C8: a post leaves the Mirror as it was, whatever its outcome; only the
\* initial list (InitialList) and the application of a queued event change
\* the Mirror.
C8_PostLeavesMirror ==
    /\ [](last.op = "post" => mirror = last.preMirror)
    /\ [][mirror' # mirror => (InitialList \/ ApplyEvent)]_vars

\* C8 witness: an accepted post has changed the store's count and the
\* Mirror still holds the old one.
C8_Witness ==
    /\ last.op = "post"
    /\ last.code = StatusOK
    /\ CallKey \in DOMAIN mirror
    /\ store[CallKey].replicas = last.value
    /\ mirror[CallKey].replicas # last.value

\* C9: a get or a list calls the store never and leaves the store and the
\* Mirror as they were; a get's count is the Mirror's, a get's 404 means
\* the key is not mirrored, and a list's entries are Mirror keys.
C9_ReadsTouchOnlyMirror ==
    last.op \in {"get", "list"}
    => /\ last.calls = <<>>
       /\ store = last.preStore
       /\ mirror = last.preMirror
       /\ (last.op = "get" /\ last.code = StatusOK)
            => /\ CallKey \in DOMAIN last.preMirror
               /\ last.value = last.preMirror[CallKey].replicas
       /\ (last.op = "get" /\ last.code = StatusNotFound)
            => CallKey \notin DOMAIN last.preMirror
       /\ last.op = "list"
            => \A i \in 1..Len(last.items) :
                 last.items[i] \in {KeyString(k) : k \in DOMAIN last.preMirror}

\* C9 witness: a get answers with the mirrored count of a deployment the
\* store no longer holds.
C9_Witness ==
    /\ last.op = "get"
    /\ last.code = StatusOK
    /\ CallKey \notin DOMAIN store

\* An accepted post on the key has its Modified event still queued, and
\* the Mirror held a count for the key when the post was made.
PendingMut(k) == muts[k] # NoMut /\ muts[k].m # NoReplicas
\* The last event applied for the key is a Modified event.
ModifiedApplied(k) == applied[k].type = "Modified"

\* C10 as stated: while an accepted post's Modified event is queued, every
\* get of the key answers the count M the Mirror held when the post was
\* made; and when the last event applied for the key is a Modified event,
\* a get answers the count that event carries.
C10_StaleUntilOwnEvent ==
    (last.op = "get" /\ CallKey \in Keys)
    => /\ PendingMut(CallKey)
            => (last.code = StatusOK /\ last.value = muts[CallKey].m)
       /\ ModifiedApplied(CallKey)
            => /\ last.code = StatusOK
               /\ last.value = applied[CallKey].obj.replicas

\* C10 amended: the first part holds as long as no event for the key has
\* been applied since the post.
C10_StaleUntilAnyEvent ==
    (last.op = "get" /\ CallKey \in Keys)
    => /\ (PendingMut(CallKey) /\ muts[CallKey].clean)
            => (last.code = StatusOK /\ last.value = muts[CallKey].m)
       /\ ModifiedApplied(CallKey)
            => /\ last.code = StatusOK
               /\ last.value = applied[CallKey].obj.replicas

\* C10 witness: a get answers the count of the last applied Modified
\* event while an accepted post for another count awaits its event.
C10_Witness ==
    /\ last.op = "get"
    /\ CallKey \in Keys
    /\ PendingMut(CallKey)
    /\ muts[CallKey].clean
    /\ ModifiedApplied(CallKey)
    /\ last.value = muts[CallKey].m
    /\ last.value # muts[CallKey].n

\* The post call passed validation: both parameters are given and the
\* body decodes to a count that is not negative.
ValidPost ==
    /\ last.op = "post"
    /\ last.ns # ""
    /\ last.name # ""
    /\ ~Decode(last.body).err
    /\ Decode(last.body).Replicas >= 0

\* C11: what a valid post answers and does to the store follows from the
\* request, the store and the store's answer, whatever the Mirror holds:
\* the store is called once; the call succeeds on a key the store holds
\* and the Mirror may lack, and a key the store lacks is never written and
\* answers 404 when the store says not found, though the Mirror may still
\* hold it.
C11_PostIgnoresMirror ==
    ValidPost
    => /\ Len(last.calls) = 1
       /\ last.lookups = 0
       /\ last.calls[1].err = "none"
            => /\ CallKey \in DOMAIN last.preStore
               /\ last.code = StatusOK
               /\ last.value = Decode(last.body).Replicas
               /\ store[CallKey].replicas = last.value
       /\ last.calls[1].err # "none"
            => /\ last.code = IF last.calls[1].err = "notfound"
                              THEN StatusNotFound
                              ELSE StatusInternalServerError
               /\ last.value = NoValue
       /\ CallKey \notin DOMAIN last.preStore
            => /\ last.calls[1].err # "none"
               /\ store = last.preStore

\* C11 witness: an accepted post on a key the store holds and the Mirror
\* does not hold yet.
C11_Witness ==
    /\ ValidPost
    /\ last.code = StatusOK
    /\ CallKey \in DOMAIN last.preStore
    /\ CallKey \notin DOMAIN last.preMirror
    /\ store[CallKey].replicas # last.preStore[CallKey].replicas

\* C12: whenever the server listens or a handler has run, the informer
\* has synced: the initial list is in the Mirror.
C12_ServesAfterSync ==
    (phase = "serving" \/ last # NoCall) => (synced /\ phase = "serving")

\* C12 witness: a get is answered from a Mirror the initial list filled.
C12_Witness ==
    /\ last.op = "get"
    /\ last.code = StatusOK
    /\ synced
    /\ applied[CallKey].type = "Sync"

\* No watch event has been applied since the initial list.
NoWatchEventApplied == \A k \in Keys : applied[k].type \in {"None", "Sync"}
\* The keys of the objects the initial list returned.
InitiallyListed == {k \in Keys : applied[k].type = "Sync"}

\* C13: while no watch event has been applied, the Mirror holds exactly
\* the objects the initial list returned, and a list of all namespaces
\* returns exactly their keys.
C13_ListIsInitialList ==
    (last.op = "list" /\ last.ns = "" /\ NoWatchEventApplied)
    => /\ last.preMirror = [k \in InitiallyListed |-> applied[k].obj]
       /\ {last.items[i] : i \in 1..Len(last.items)}
            = {KeyString(k) : k \in InitiallyListed}
       /\ Len(last.items) = Cardinality(InitiallyListed)

\* C13 witness: the list returns the one object of the initial list while
\* the store holds a second one whose event is still queued.
C13_Witness ==
    /\ last.op = "list"
    /\ last.ns = ""
    /\ NoWatchEventApplied
    /\ Len(last.items) = 1
    /\ Cardinality(DOMAIN store) = 2
    /\ watch # <<>>

\* C14 as stated: when the store never answers the informer's list,
\* startup ends in a fatal error, and the server never listens.
C14_FailedSyncIsFatal ==
    /\ [](~canList => phase # "serving")
    /\ (~canList) ~> (phase = "fatal")

\* The feed delivers the events in non-decreasing resource version.
InOrder(evs) ==
    \A i, j \in 1..Len(evs) : i <= j => evs[i].obj.rv <= evs[j].obj.rv
\* The events of the feed have pairwise distinct resource versions.
DistinctVersions(evs) ==
    \A i, j \in 1..Len(evs) : i # j => evs[i].obj.rv # evs[j].obj.rv
\* The number of events of the feed applied so far.
FeedApplied == Len(feed) - Len(watch)

Newest(evs) ==
    evs[CHOOSE i \in 1..Len(evs) :
            \A j \in 1..Len(evs) : evs[j].obj.rv <= evs[i].obj.rv]

C17_SameAddedTwice ==
    [][(watch # <<>> /\ Head(watch).type = "Added"
          /\ applied[FeedKey] = Head(watch))
       => mirror' = mirror]_vars

\* C17 witness: after another event, the same Added event has been
\* applied twice and the Mirror holds its object.
C17_Witness ==
    /\ FeedApplied = 3
    /\ feed[3].type = "Added"
    /\ feed[3] = feed[2]
    /\ feed[1].obj.rv # feed[2].obj.rv
    /\ mirror[FeedKey] = feed[3].obj

\* C18 as stated: a get of a key the store no longer holds answers the
\* mirrored count as long as the Mirror holds the key, and 404 once the
\* last event applied for the key is a Deleted event.
C18_DeletedKeyReads ==
    (last.op = "get" /\ CallKey \in Keys)
    => /\ (CallKey \in DOMAIN last.preMirror
             /\ CallKey \notin DOMAIN last.preStore)
            => /\ last.code = StatusOK
               /\ last.value = last.preMirror[CallKey].replicas
       /\ applied[CallKey].type = "Deleted" => last.code = StatusNotFound

\* C19 as stated: a get answers with the count of the object the last
\* event applied for its key left in the Mirror, and 404 when that event
\* deleted the key or no event was applied for it.
C19_ReadsLastAppliedEvent ==
    (last.op = "get" /\ CallKey \in Keys)
    => IF applied[CallKey].type \in {"None", "Deleted"}
       THEN last.code = StatusNotFound
       ELSE /\ last.code = StatusOK
            /\ last.value = applied[CallKey].obj.replicas

\* The kept post call was accepted by the store.
Accepted(p) == p.present /\ p.called /\ p.err = "none"
\* The kept post call was refused by the store with a conflict.
Refused(p) == p.present /\ p.called /\ p.err = "conflict"
\* Both post calls are done, on the same key, and the second has just
\* returned.
RaceDone ==
    /\ Len(posts) = 2
    /\ last.op = "post"
    /\ posts[1].key = posts[2].key

ProbeAnswered == Len(last.calls) = 1 /\ last.calls[1].err = "none"

\* C24 as stated: a health call made once the informer has synced
\* answers OK.
C24_ReadyOnceSynced == (last.op = "health" /\ synced) => last.code = StatusOK

\* C24: a health call is made only once the informer has synced and the
\* server listens, and there it answers OK exactly when the store answers
\* the version probe: the sync state does not decide the answer.
C24_ReadyFollowsProbe ==
    last.op = "health"
    => /\ synced
       /\ phase = "serving"
       /\ last.code = StatusOK <=> ProbeAnswered

\* C24 witness: a health call made after the sync answers 503 because the
\* store did not answer the probe.
C24_Witness ==
    /\ last.op = "health"
    /\ synced
    /\ ~ProbeAnswered
    /\ last.code = StatusServiceUnavailable

\* C25: every health call probes the store's version once; it answers
\* 200 OK when the probe is answered and 503 "Kubernetes connectivity
\* check failed" when it is not, and it neither reads nor changes the
\* Mirror.
C25_HealthProbesStore ==
    last.op = "health"
    => /\ Len(last.calls) = 1
       /\ last.calls[1].verb = "ServerVersion"
       /\ last.calls[1].err = "none"
            => last.code = StatusOK /\ last.msg = "OK"
       /\ last.calls[1].err # "none"
            => /\ last.code = StatusServiceUnavailable
               /\ last.msg = "Kubernetes connectivity check failed"
       /\ last.lookups = 0
       /\ mirror = last.preMirror
       /\ store = last.preStore

\* C25 witness: a health call whose probe failed answered 503 while the
\* Mirror held a deployment.
C25_Witness ==
    /\ last.op = "health"
    /\ last.calls[1].err = "unavailable"
    /\ last.code = StatusServiceUnavailable
    /\ mirror # Empty

\* The message of the first check a post call fails, "" when it passes
\* them all.
FirstRejection ==
    IF last.ns = "" \/ last.name = ""
    THEN "Both namespace and deployment must be specified"
    ELSE IF Decode(last.body).err THEN "Invalid request body"
    ELSE IF Decode(last.body).Replicas < 0
    THEN "Replica count must be non-negative"
    ELSE ""

\* C28: a post call that passes the three checks issues UpdateScale once,
\* whatever the store answers; a post call that fails one issues no store
\* call and answers 400 with the message of the first check it fails.
C28_UpdateScaleOnceOrNever ==
    last.op = "post"
    => IF FirstRejection = ""
       THEN /\ Len(last.calls) = 1
            /\ last.calls[1].verb = "UpdateScale"
       ELSE /\ last.calls = <<>>
            /\ last.code = StatusBadRequest
            /\ last.msg = FirstRejection
            /\ store = last.preStore

\* C28 witness: a post whose UpdateScale failed with a conflict answered
\* 500 after that one call, and the store was not written.
C28_Witness ==
    /\ last.op = "post"
    /\ FirstRejection = ""
    /\ Len(last.calls) = 1
    /\ last.calls[1].err = "conflict"
    /\ last.code = StatusInternalServerError
    /\ CallKey \in DOMAIN last.preStore
    /\ store = last.preStore

\* C30 as stated: a get of a key the Mirror holds answers 200 with a
\* replica count, whatever the mirrored object carries.
C30_GetNeverPanics ==
    (last.op = "get" /\ CallKey \in DOMAIN last.preMirror)
    => /\ last.code = StatusOK
       /\ last.value # NoValue

\* C29: a post call the store accepted leaves the store with the same
\* keys, every other object as it was, and the object it names as the
\* store held it except for its replica count and resource version,
\* whatever copy of the object the Mirror holds.
C29_OnlyReplicasWritten ==
    (last.op = "post" /\ last.code = StatusOK)
    => /\ DOMAIN store = DOMAIN last.preStore
       /\ \A k \in DOMAIN store \ {CallKey} : store[k] = last.preStore[k]
       /\ store[CallKey].replicas = last.value
       /\ store[CallKey].payload = last.preStore[CallKey].payload
       /\ store[CallKey].ns = last.preStore[CallKey].ns
       /\ store[CallKey].name = last.preStore[CallKey].name

\* C29 witness: an accepted post changed the count of a deployment whose
\* mirrored copy was older than the store's, and nothing else of it.
C29_Witness ==
    /\ last.op = "post"
    /\ last.code = StatusOK
    /\ CallKey \in DOMAIN last.preMirror
    /\ last.preMirror[CallKey].payload # last.preStore[CallKey].payload
    /\ store[CallKey].replicas # last.preStore[CallKey].replicas
    /\ store[CallKey].payload = last.preStore[CallKey].payload

\* The Mirror holds the store's keys with the store's replica counts.
Converged ==
    /\ DOMAIN mirror = DOMAIN store
    /\ \A k \in DOMAIN store : mirror[k].replicas = store[k].replicas

C23_WatchErrorsStayInside ==
    watchErrors > 0
    => /\ phase = "serving"
       /\ last.op \in {"get", "list"}
            => /\ last.code \in {StatusOK, StatusNotFound, StatusBadRequest}
               /\ last.calls = <<>>

\* C21: a post call whose UpdateScale waits for the store returns: when
\* the store has not answered after the ten seconds, UpdateScale returns
\* the context's error and the call answers 500 "Failed to update
\* deployment scale".
C21_PostReturnsByDeadline ==
    /\ [](pending # NoPending => pending.waited <= UpdateTimeout)
    /\ []((last.op = "post" /\ Answered("timeout"))
            => /\ last.code = StatusInternalServerError
               /\ last.msg = "Failed to update deployment scale")
    /\ (pending # NoPending) ~> (pending = NoPending /\ last.op = "post")

\* C21 witness: a post call has answered 500 after its UpdateScale ended
\* with the context's error, on a deployment the store holds.
C21_Witness ==
    /\ last.op = "post"
    /\ Answered("timeout")
    /\ last.code = StatusInternalServerError
    /\ pending = NoPending
    /\ CallKey \in DOMAIN last.preStore

\* C26 as stated: once the termination signal has arrived the server no
\* longer accepts requests and waits at most five seconds; stopCh is
\* closed only after the wait, with no request in flight, and it is
\* closed when the process has ended.
C26_StopsAfterDrainBeforeExit ==
    /\ grace # NoGrace => phase # "serving"
    /\ grace <= ShutdownTimeout
    /\ stopChClosed
         => phase \in {"drained", "exited"} /\ pending = NoPending
    /\ (grace # NoGrace /\ phase \in {"exited", "fatal"}) => stopChClosed

\* C27: the deadline or the cancellation of a post call's context ends
\* that call with the write failure and leaves the Mirror, stopCh and the
\* running informer as they were; within the running process the
\* informer stops only when stopCh is closed.
C27_ContextEndsOnlyTheCall ==
    /\ [][(\E f \in Faults : PostDeadline(f) \/ PostCancelled(f))
            => /\ mirror' = mirror
               /\ stopChClosed' = stopChClosed
               /\ InformerRuns'
               /\ pending' = NoPending
               /\ last'.code = StatusInternalServerError]_vars
    /\ [][(InformerRuns /\ ~InformerRuns' /\ phase' = phase)
            => CloseStop]_vars

\* C27 witness: a post call ended with the context's error and the
\* informer, still running, has the store's event of the write queued.
C27_Witness ==
    /\ last.op = "post"
    /\ Answered("timeout")
    /\ InformerRuns
    /\ ~stopChClosed
    /\ mirror = last.preMirror
    /\ watch # <<>>
    /\ store # last.preStore

====
